---------------------------- MODULE Spec2Model ----------------------------
(***************************************************************************)
(* Model of src/app.py, the Streamlit "AD Campaign Dashboard".             *)
(*                                                                         *)
(* A Dataset (pandas DataFrame with the fourteen fixed columns) is a       *)
(* sequence of rows; a row is a function from column name to value.  An    *)
(* aggregated table is a record [columns, rows]: columns is the sequence   *)
(* of column names, rows the sequence of rows (functions over columns).    *)
(* A float cell of an aggregated table is [val |-> n] or NaN.  The input   *)
(* values are even integers, so the mean of the two middle values that a   *)
(* median of an even-sized group takes is again an integer.                *)
(***************************************************************************)
EXTENDS Integers, Sequences, FiniteSets, TLC

VARIABLES
    pc,               \* position of the script run / state of the call
    uploaded_file,    \* st.sidebar.file_uploader(...) (line 18)
    page,             \* st.sidebar.radio("Select Page", ...) (line 21)
    df,               \* the loaded Dataset (line 42)
    selected,         \* the four selectbox values of the last apply_filters
    filtered_df,      \* result of the last apply_filters
    selected_metrics, \* metric list of the last aggregation
    agg_df,           \* result of the last aggregation
    fig,              \* result of the last plot_metric
    shown,            \* what each view of the page rendered in this run
    calls             \* the functions of app.py invoked so far in this run

vars == <<pc, uploaded_file, page, df, selected, filtered_df,
          selected_metrics, agg_df, fig, shown, calls>>

---------------------------------------------------------------------------
(* Bounds of the model                                                     *)

MaxRows == 2
MaxSel == 2

---------------------------------------------------------------------------
(* Columns and the fixed classification table                              *)

DateCol == "WE Date"

FilterColumns == <<"Product", "Portfolio Name", "Match Type", "RTW/Prospecting">>

sum_metrics == <<"Sales", "Spend", "Units", "Impressions", "Clicks">>

median_metrics == <<"Click-through Rate", "Conversion Rate", "CPC", "ROAS">>

MetricColumns == sum_metrics \o median_metrics

Range(s) == {s[i] : i \in DOMAIN s}

Contains(s, x) == \E i \in DOMAIN s : s[i] = x

usecols == {DateCol} \cup Range(FilterColumns) \cup Range(MetricColumns)

---------------------------------------------------------------------------
(* Values                                                                  *)

None == [none |-> TRUE]

NaN == [nan |-> TRUE]

Num(n) == [val |-> n]

IsNaN(c) == c = NaN

\* Python's x > y on floats: every comparison with NaN is False.
Gt(x, y) == ~IsNaN(x) /\ ~IsNaN(y) /\ x.val > y.val

EmptyDataFrame == [columns |-> <<>>, rows |-> <<>>]

Raise(e) == [raised |-> e]

IsFrame(r) == "columns" \in DOMAIN r

---------------------------------------------------------------------------
(* pandas helpers                                                          *)

\* variant: the first value of the group instead of the sum
SumSeqFirstOnly(s) == IF s = <<>> THEN 0 ELSE Head(s)

RECURSIVE SumSeq(_)
SumSeq(s) == IF s = <<>> THEN 0 ELSE Head(s) + SumSeq(Tail(s))

RECURSIVE Insert(_, _)
Insert(x, s) ==
    IF s = <<>> THEN <<x>>
    ELSE IF x <= Head(s) THEN <<x>> \o s
    ELSE <<Head(s)>> \o Insert(x, Tail(s))

RECURSIVE SortValues(_)
SortValues(s) == IF s = <<>> THEN <<>> ELSE Insert(Head(s), SortValues(Tail(s)))

\* "median" of a non-empty group: the middle value, or the mean of the two
\* middle values.
MedianSeq(s) ==
    LET t == SortValues(s)
        n == Len(t)
    IN  IF n % 2 = 1 THEN t[(n + 1) \div 2]
        ELSE (t[n \div 2] + t[n \div 2 + 1]) \div 2

\* the values of column col in the rows of data whose date is d, in row order
GroupValues(data, col, d) ==
    LET g == SelectSeq(data, LAMBDA r : r[DateCol] = d)
    IN  [i \in DOMAIN g |-> g[i][col]]

RECURSIVE SortedSeqOf(_)
SortedSeqOf(S) ==
    IF S = {} THEN <<>>
    ELSE LET m == CHOOSE x \in S : \A y \in S : x <= y
         IN  <<m>> \o SortedSeqOf(S \ {m})

\* the dates (join keys) of a sequence of rows
Keys(rows) == {rows[i][DateCol] : i \in DOMAIN rows}

\* data.groupby("WE Date").agg({metric: how}).reset_index(): one row per date
\* that occurs in data, in ascending date order.
GroupByAgg(data, metric, how) ==
    LET keys == SortedSeqOf(Keys(data))
    IN  [columns |-> <<DateCol, metric>>,
         rows |-> [i \in DOMAIN keys |->
                     (DateCol :> keys[i]) @@
                     (metric :> Num(IF how = "sum"
                                    THEN SumSeq(GroupValues(data, metric, keys[i]))
                                    ELSE MedianSeq(GroupValues(data, metric, keys[i]))))]]

\* variant: data[data[metric] >= 0]
NonNegativeRows(data, metric) == SelectSeq(data, LAMBDA r : r[metric] >= 0)

\* data[data[metric] > 0]
PositiveRows(data, metric) == SelectSeq(data, LAMBDA r : r[metric] > 0)

\* pd.merge(left, right, on="WE Date", how=...) with the join keys given: a
\* non-key column present on both sides is renamed with the suffixes _x (left)
\* and _y (right); a side without the key gives NaN.
MergeOn(left, right, keys) ==
    LET lcols == Tail(left.columns)
        rcols == Tail(right.columns)
        overlap == Range(lcols) \cap Range(rcols)
        lname(c) == IF c \in overlap THEN c \o "_x" ELSE c
        rname(c) == IF c \in overlap THEN c \o "_y" ELSE c
        columns == <<DateCol>> \o [i \in DOMAIN lcols |-> lname(lcols[i])]
                               \o [i \in DOMAIN rcols |-> rname(rcols[i])]
        cell(side, k, c) ==
            IF \E i \in DOMAIN side.rows : side.rows[i][DateCol] = k
            THEN side.rows[CHOOSE i \in DOMAIN side.rows : side.rows[i][DateCol] = k][c]
            ELSE NaN
        value(k, c) ==
            IF c = DateCol THEN k
            ELSE IF \E i \in DOMAIN lcols : lname(lcols[i]) = c
            THEN cell(left, k, lcols[CHOOSE i \in DOMAIN lcols : lname(lcols[i]) = c])
            ELSE cell(right, k, rcols[CHOOSE i \in DOMAIN rcols : rname(rcols[i]) = c])
    IN  [columns |-> columns,
         rows |-> [i \in DOMAIN keys |-> [c \in Range(columns) |-> value(keys[i], c)]]]

\* variant: how="inner", the keys both sides have
merge_inner(left, right) ==
    MergeOn(left, right, SortedSeqOf(Keys(left.rows) \cap Keys(right.rows)))

\* pd.merge(left, right, on="WE Date", how="outer"): the union of the keys of
\* the two sides, in ascending order
merge(left, right) ==
    MergeOn(left, right, SortedSeqOf(Keys(left.rows) \cup Keys(right.rows)))

\* functools.reduce(lambda left, right: pd.merge(...), agg_dfs), agg_dfs non-empty
RECURSIVE reduce(_, _)
reduce(acc, rest) ==
    IF rest = <<>> THEN acc ELSE reduce(merge(acc, Head(rest)), Tail(rest))

---------------------------------------------------------------------------
(* aggregate_data (lines 84-103)                                           *)

\* The for loop of lines 91-96.  temp is the local variable of that name: None
\* while it is unbound.  A metric of neither class assigns nothing to temp and
\* line 96 appends whatever temp holds; reading it unbound raises.
RECURSIVE AggLoop(_, _, _, _)
AggLoop(data, metrics, temp, agg_dfs) ==
    IF metrics = <<>> THEN [raised |-> "", agg_dfs |-> agg_dfs]
    ELSE LET metric == Head(metrics)
             temp2 == IF Contains(sum_metrics, metric)
                      THEN GroupByAgg(data, metric, "sum")
                      ELSE IF Contains(median_metrics, metric)
                      THEN GroupByAgg(PositiveRows(data, metric), metric, "median")
                      ELSE temp
         IN  IF temp2 = None
             THEN [raised |-> "UnboundLocalError", agg_dfs |-> agg_dfs]
             ELSE AggLoop(data, Tail(metrics), temp2, Append(agg_dfs, temp2))

\* variant: the empty result still has the date column
aggregate_data_date_column(data, metrics) ==
    LET r == AggLoop(data, metrics, None, <<>>)
    IN  IF r.raised # "" THEN Raise(r.raised)
        ELSE IF r.agg_dfs # <<>> THEN reduce(Head(r.agg_dfs), Tail(r.agg_dfs))
        ELSE [columns |-> <<DateCol>>, rows |-> <<>>]

aggregate_data(data, metrics) ==
    LET r == AggLoop(data, metrics, None, <<>>)
    IN  IF r.raised # "" THEN Raise(r.raised)
        ELSE IF r.agg_dfs # <<>> THEN reduce(Head(r.agg_dfs), Tail(r.agg_dfs))
        ELSE EmptyDataFrame

---------------------------------------------------------------------------
(* plot_metric (lines 105-117)                                             *)

\* DataFrame.max() of one column: NaN entries are skipped; NaN when nothing is left.
ColumnMax(table, c) ==
    LET present == {table.rows[i][c].val : i \in {j \in DOMAIN table.rows : ~IsNaN(table.rows[j][c])}}
    IN  IF present = {} THEN NaN
        ELSE Num(CHOOSE m \in present : \A x \in present : x <= m)

\* Python's builtin max over a non-empty iterable: keeps the first item and
\* replaces it by a later one only when later > current.
RECURSIVE PyMaxFrom(_, _)
PyMaxFrom(cur, rest) ==
    IF rest = <<>> THEN cur
    ELSE PyMaxFrom(IF Gt(Head(rest), cur) THEN Head(rest) ELSE cur, Tail(rest))

PyMax(s) == PyMaxFrom(Head(s), Tail(s))

\* x * 1.1 as the exact fraction 11 x / 10; NaN * 1.1 is NaN
Times1_1(x) == IF IsNaN(x) THEN NaN ELSE [num |-> 11 * x.val, den |-> 10]

plot_metric(table, metrics) ==
    [x |-> DateCol,
     y |-> metrics,
     yaxis_range |-> <<Num(0), Times1_1(PyMax([i \in DOMAIN metrics |-> ColumnMax(table, metrics[i])]))>>]

---------------------------------------------------------------------------
(* load_data (lines 23-39)                                                 *)

\* pd.read_parquet(file): every column of the file
read_parquet(file) == file.data

\* pd.read_csv(file, usecols=[...]): only the fourteen columns of usecols
read_csv(file) == [i \in DOMAIN file.data |-> [c \in usecols |-> file.data[i][c]]]

load_data(file) ==
    IF file.ext = ".parquet" THEN read_parquet(file) ELSE read_csv(file)

---------------------------------------------------------------------------
(* apply_filters (lines 48-82)                                             *)

\* the choices a selectbox offers: "All" and the categories of the column
Options(data, col) == {"All"} \cup {data[i][col] : i \in DOMAIN data}

\* the possible values of the four selectboxes, as a function of the column
Selections(data) ==
    {(FilterColumns[1] :> a) @@ (FilterColumns[2] :> b) @@
     (FilterColumns[3] :> c) @@ (FilterColumns[4] :> d) :
        a \in Options(data, FilterColumns[1]), b \in Options(data, FilterColumns[2]),
        c \in Options(data, FilterColumns[3]), d \in Options(data, FilterColumns[4])}

\* the dict filters after lines 55-77, as the sequence of its items: one
\* (column, value) pair per selectbox that is not "All", in insertion order
RECURSIVE FilterItems(_, _)
FilterItems(sel, cols) ==
    IF cols = <<>> THEN <<>>
    ELSE (IF sel[Head(cols)] # "All" THEN <<<<Head(cols), sel[Head(cols)]>>>> ELSE <<>>)
         \o FilterItems(sel, Tail(cols))

\* the loop of lines 79-80: data = data[data[col] == val]
RECURSIVE FilterLoop(_, _)
FilterLoop(data, items) ==
    IF items = <<>> THEN data
    ELSE FilterLoop(SelectSeq(data, LAMBDA r : r[Head(items)[1]] = Head(items)[2]),
                    Tail(items))

\* variant: the RTW/Prospecting selection is not applied
apply_filters_three(data, sel) == FilterLoop(data, FilterItems(sel, SubSeq(FilterColumns, 1, 3)))

apply_filters(data, sel) == FilterLoop(data, FilterItems(sel, FilterColumns))

---------------------------------------------------------------------------
(* The inline aggregation of the single-metric tabs                        *)

\* lines 150 and 161
SumTabAgg(data, metric) == GroupByAgg(data, metric, "sum")

\* variant: the median of all rows, values <= 0 included
MedianTabAggAllRows(data, metric) == GroupByAgg(data, metric, "median")

\* lines 173-174
MedianTabAgg(data, metric) == GroupByAgg(PositiveRows(data, metric), metric, "median")

\* agg_df.empty
IsEmpty(table) == table.rows = <<>> \/ table.columns = <<>>

---------------------------------------------------------------------------
(* Input domains                                                           *)

Categories == <<{"A", "B"}, {"P", "Q"}, {"Broad", "Exact"}, {"Prospecting", "RTW"}>>

Dates == {1, 2}

ValueIndexes == 0 .. 2

\* the value a row of value index v holds in the k-th metric column: one of
\* -2, 0, 2, 4, shifted by one from column to column, so that a row holds
\* values <= 0 in some columns and values > 0 in others
ValueOf(k, v) == 2 * ((v + k) % 4) - 2

\* a row: date d, categories cs (one per filter column), value index v
Row(d, cs, v) ==
    [c \in usecols |->
        IF c = DateCol THEN d
        ELSE IF Contains(FilterColumns, c)
        THEN cs[CHOOSE j \in DOMAIN FilterColumns : FilterColumns[j] = c]
        ELSE ValueOf(CHOOSE k \in DOMAIN MetricColumns : MetricColumns[k] = c, v)]

BaseCats == <<"A", "P", "Exact", "RTW">>

SeqsUpTo(S, n) == UNION {[1 .. k -> S] : k \in 0 .. n}

DistinctSeqsUpTo(S, n) ==
    {s \in SeqsUpTo(S, n) : \A i, j \in DOMAIN s : i # j => s[i] # s[j]}

\* rows that differ in date and metric values
AggRows == {Row(d, BaseCats, v) : d \in Dates, v \in ValueIndexes}

AggDatasets == SeqsUpTo(AggRows, MaxRows)

\* a metric name of neither class
Unrecognized == "Profit"

MetricLists == DistinctSeqsUpTo(Range(MetricColumns) \cup {Unrecognized}, MaxSel)

Views == <<"General", "Impressions", "Clicks", "Click-through Rate",
           "Conversion Rate", "CPC", "ROAS">>

\* the single-metric tabs: tabs[1:]
SingleMetricViews == Tail(Views)

\* what is rendered: the upload prompt (line 45), the dashboard page (lines
\* 120-121) and the seven views of the Metrics Charts page
Outputs == {"Upload", "Dashboard"} \cup Range(Views)

NothingShown == [v \in Outputs |-> ""]

Pages == {"AD Campaign Dashboard", "Metrics Charts"}

\* the options of the multiselect of lines 134-138
GeneralOptions == <<"Sales", "Spend", "Units", "Click-through Rate",
                    "Conversion Rate", "CPC", "ROAS">>

\* the default selection of the multiselect
DefaultMetrics == <<"Sales", "Spend">>

\* what the user leaves selected in the runs modelled: nothing, the default,
\* or a single metric
MultiselectChoices ==
    {<<>>, DefaultMetrics} \cup {<<GeneralOptions[i]>> : i \in DOMAIN GeneralOptions}

\* rows that differ in the categories of the four filter columns
FilterRows == {Row(1, <<a, b, c, d>>, 2) :
                  a \in Categories[1], b \in Categories[2],
                  c \in Categories[3], d \in Categories[4]}

FilterDatasets == SeqsUpTo(FilterRows, MaxRows)

\* the rows of the uploaded files: two that no Product/Portfolio pair of
\* filters both match, and two that differ in date and values only
UploadRows == {Row(1, <<"A", "Q", "Exact", "RTW">>, 0),
               Row(2, <<"B", "P", "Exact", "RTW">>, 2),
               Row(2, BaseCats, 1)}

\* an uploaded file: its extension and its content, which has one more column
\* than the fourteen the dashboard uses
Files == {[ext |-> e, data |-> [i \in DOMAIN d |-> d[i] @@ ("Campaign Name" :> "c1")]] :
             e \in {".csv", ".parquet"}, d \in SeqsUpTo(UploadRows, MaxRows)}

---------------------------------------------------------------------------
(* SpecFilter: apply_filters called on arbitrary Datasets and selections   *)

InitFilter ==
    /\ pc = "ready"
    /\ uploaded_file = None
    /\ page = ""
    /\ df \in FilterDatasets
    /\ selected = None
    /\ filtered_df = <<>>
    /\ selected_metrics = <<>>
    /\ agg_df = None
    /\ fig = None
    /\ shown = NothingShown
    /\ calls = {}

CallApplyFilters ==
    /\ pc = "ready"
    /\ \E sel \in Selections(df) :
          /\ selected' = sel
          /\ filtered_df' = apply_filters(df, sel)
    /\ pc' = "filtered"
    /\ calls' = calls \cup {"apply_filters"}
    /\ UNCHANGED <<uploaded_file, page, df, selected_metrics, agg_df, fig, shown>>

NextFilter == CallApplyFilters

SpecFilter == InitFilter /\ [][NextFilter]_vars

---------------------------------------------------------------------------
(* SpecAgg: aggregate_data and plot_metric called, and the inline           *)
(* aggregation of the single-metric tabs run, on arbitrary filtered        *)
(* Datasets                                                                *)

InitAgg ==
    /\ pc = "ready"
    /\ uploaded_file = None
    /\ page = ""
    /\ df = <<>>
    /\ selected = None
    /\ filtered_df \in AggDatasets
    /\ selected_metrics = <<>>
    /\ agg_df = None
    /\ fig = None
    /\ shown = NothingShown
    /\ calls = {}

CallAggregateData ==
    /\ pc = "ready"
    /\ \E ms \in MetricLists :
          /\ selected_metrics' = ms
          /\ agg_df' = aggregate_data(filtered_df, ms)
    /\ pc' = "aggregated"
    /\ calls' = calls \cup {"aggregate_data"}
    /\ UNCHANGED <<uploaded_file, page, df, selected, filtered_df, fig, shown>>

\* plot_metric(agg_df, selected_metrics), as line 142 calls it, when the table
\* has the requested columns
CallPlotMetric ==
    /\ pc = "aggregated"
    /\ IsFrame(agg_df)
    /\ selected_metrics # <<>>
    /\ Range(selected_metrics) \subseteq Range(agg_df.columns)
    /\ fig' = plot_metric(agg_df, selected_metrics)
    /\ pc' = "plotted"
    /\ calls' = calls \cup {"plot_metric"}
    /\ UNCHANGED <<uploaded_file, page, df, selected, filtered_df,
                   selected_metrics, agg_df, shown>>

\* the aggregation a single-metric tab does inline on its filtered Dataset
TabAggregate ==
    /\ pc = "ready"
    /\ \E i \in DOMAIN SingleMetricViews :
          LET metric == SingleMetricViews[i]
          IN  /\ selected_metrics' = <<metric>>
              /\ agg_df' = IF Contains(sum_metrics, metric)
                           THEN SumTabAgg(filtered_df, metric)
                           ELSE MedianTabAgg(filtered_df, metric)
    /\ pc' = "tab_aggregated"
    /\ UNCHANGED <<uploaded_file, page, df, selected, filtered_df, fig, shown, calls>>

NextAgg == CallAggregateData \/ CallPlotMetric \/ TabAggregate

SpecAgg == InitAgg /\ [][NextAgg]_vars

---------------------------------------------------------------------------
(* Spec: one run of the script                                             *)

Init ==
    /\ pc = "start"
    /\ uploaded_file \in {None} \cup Files
    /\ page \in Pages
    /\ df = <<>>
    /\ selected = None
    /\ filtered_df = <<>>
    /\ selected_metrics = <<>>
    /\ agg_df = None
    /\ fig = None
    /\ shown = NothingShown
    /\ calls = {}

\* the view after v, or "done" after the last one
NextView(v) ==
    LET i == CHOOSE j \in DOMAIN Views : Views[j] = v
    IN  IF i < Len(Views) THEN Views[i + 1] ELSE "done"

\* variant: without a file the run goes on with an empty Dataset
UploadCheckNoStop ==
    /\ pc = "start"
    /\ IF uploaded_file # None
       THEN /\ df' = load_data(uploaded_file)
            /\ calls' = calls \cup {"load_data"}
            /\ UNCHANGED shown
       ELSE /\ shown' = [shown EXCEPT !["Upload"] = "warning"]
            /\ UNCHANGED <<df, calls>>
    /\ pc' = "page"
    /\ UNCHANGED <<uploaded_file, page, selected, filtered_df, selected_metrics,
                   agg_df, fig>>

\* lines 41-46
UploadCheck ==
    /\ pc = "start"
    /\ IF uploaded_file # None
       THEN /\ df' = load_data(uploaded_file)
            /\ calls' = calls \cup {"load_data"}
            /\ pc' = "page"
            /\ UNCHANGED shown
       ELSE /\ shown' = [shown EXCEPT !["Upload"] = "warning"]
            /\ pc' = "stopped"
            /\ UNCHANGED <<df, calls>>
    /\ UNCHANGED <<uploaded_file, page, selected, filtered_df, selected_metrics,
                   agg_df, fig>>

\* lines 119-128
PageDispatch ==
    /\ pc = "page"
    /\ IF page = "AD Campaign Dashboard"
       THEN /\ shown' = [shown EXCEPT !["Dashboard"] = "info"]
            /\ pc' = "done"
       ELSE /\ pc' = Views[1]
            /\ UNCHANGED shown
    /\ UNCHANGED <<uploaded_file, page, df, selected, filtered_df,
                   selected_metrics, agg_df, fig, calls>>

\* lines 131-144
GeneralTab ==
    /\ pc = "General"
    /\ \E sel \in Selections(df), ms \in MultiselectChoices :
          LET f == apply_filters(df, sel)
              a == aggregate_data(f, ms)
          IN  /\ filtered_df' = f
              /\ selected_metrics' = ms
              /\ IF ms # <<>>
                 THEN /\ agg_df' = a
                      /\ fig' = plot_metric(a, ms)
                      /\ shown' = [shown EXCEPT !["General"] = "chart"]
                      /\ calls' = calls \cup {"apply_filters", "aggregate_data", "plot_metric"}
                 ELSE /\ shown' = [shown EXCEPT !["General"] = "warning"]
                      /\ calls' = calls \cup {"apply_filters"}
                      /\ UNCHANGED <<agg_df, fig>>
    /\ pc' = NextView(pc)
    /\ UNCHANGED <<uploaded_file, page, df, selected>>

\* the body shared by lines 152-155, 163-166 and 176-179
ShowTab(view, a) ==
    IF IsEmpty(a)
    THEN /\ shown' = [shown EXCEPT ![view] = "warning"]
         /\ calls' = calls \cup {"apply_filters"}
         /\ UNCHANGED fig
    ELSE /\ fig' = plot_metric(a, <<view>>)
         /\ shown' = [shown EXCEPT ![view] = "chart"]
         /\ calls' = calls \cup {"apply_filters", "plot_metric"}

\* lines 146-155
ImpressionsTab ==
    /\ pc = "Impressions"
    /\ \E sel \in Selections(df) :
          LET f == apply_filters(df, sel)
              a == SumTabAgg(f, "Impressions")
          IN  /\ filtered_df' = f
              /\ agg_df' = a
              /\ ShowTab("Impressions", a)
    /\ pc' = NextView(pc)
    /\ UNCHANGED <<uploaded_file, page, df, selected, selected_metrics>>

\* lines 157-166
ClicksTab ==
    /\ pc = "Clicks"
    /\ \E sel \in Selections(df) :
          LET f == apply_filters(df, sel)
              a == SumTabAgg(f, "Clicks")
          IN  /\ filtered_df' = f
              /\ agg_df' = a
              /\ ShowTab("Clicks", a)
    /\ pc' = NextView(pc)
    /\ UNCHANGED <<uploaded_file, page, df, selected, selected_metrics>>

\* lines 168-179: one iteration of the loop over the four MEDIAN-class tabs
OtherMetricsTab ==
    /\ Contains(median_metrics, pc)
    /\ \E sel \in Selections(df) :
          LET f == PositiveRows(apply_filters(df, sel), pc)
              a == MedianTabAgg(apply_filters(df, sel), pc)
          IN  /\ filtered_df' = f
              /\ agg_df' = a
              /\ ShowTab(pc, a)
    /\ pc' = NextView(pc)
    /\ UNCHANGED <<uploaded_file, page, df, selected, selected_metrics>>

Next ==
    \/ UploadCheck
    \/ PageDispatch
    \/ GeneralTab
    \/ ImpressionsTab
    \/ ClicksTab
    \/ OtherMetricsTab

Spec == Init /\ [][Next]_vars


---------------------------------------------------------------------------
(* What the results are compared with: sums and medians defined on sets of *)
(* row indexes rather than by the loops above                              *)

\* the indexes of the rows of data whose date is d
RowsOn(data, d) == {i \in DOMAIN data : data[i][DateCol] = d}

RECURSIVE SumOver(_, _, _)
SumOver(data, col, I) ==
    IF I = {} THEN 0
    ELSE LET i == CHOOSE j \in I : TRUE
         IN  data[i][col] + SumOver(data, col, I \ {i})

\* the indexes of the rows of date d whose value in col is > 0
PositiveOn(data, col, d) == {i \in RowsOn(data, d) : data[i][col] > 0}

\* the k-th smallest value of column col among the rows I
KthSmallest(data, col, I, k) ==
    CHOOSE v \in {data[i][col] : i \in I} :
        /\ Cardinality({i \in I : data[i][col] < v}) < k
        /\ Cardinality({i \in I : data[i][col] <= v}) >= k

\* twice the statistical median of column col over the non-empty set of rows I
TwiceMedian(data, col, I) ==
    LET n == Cardinality(I)
    IN  KthSmallest(data, col, I, (n + 1) \div 2) + KthSmallest(data, col, I, n \div 2 + 1)

Recognized(ms) == \A i \in DOMAIN ms : Contains(MetricColumns, ms[i])

TableDates(table) == {table.rows[i][DateCol] : i \in DOMAIN table.rows}

OneRowPerDate(table) ==
    \A i, j \in DOMAIN table.rows :
        i # j => table.rows[i][DateCol] # table.rows[j][DateCol]

\* the cell of column c in the row of date d
Cell(table, d, c) ==
    table.rows[CHOOSE i \in DOMAIN table.rows : table.rows[i][DateCol] = d][c]

\* the dates at which column m of the table holds a value
SeriesDates(table, m) == {d \in TableDates(table) : ~IsNaN(Cell(table, d, m))}

\* the dates of the series of metric m over data
ExpectedDates(data, m) ==
    IF Contains(sum_metrics, m) THEN Keys(data)
    ELSE {d \in Keys(data) : PositiveOn(data, m, d) # {}}

Aggregated == pc \in {"aggregated", "tab_aggregated"}

---------------------------------------------------------------------------
(* Claims                                                                  *)

\* C1: apply_filters returns exactly the rows that equal the selected value
\* in every column whose selection is not "All", in their input order.
C1_FilterConjunction ==
    pc = "filtered" =>
        LET keep == {i \in DOMAIN df :
                        \A c \in Range(FilterColumns) :
                            selected[c] # "All" => df[i][c] = selected[c]}
            order == SortedSeqOf(keep)
        IN  filtered_df = [j \in DOMAIN order |-> df[order[j]]]

\* C1 witness: two filters are set, and of two rows only the second is kept
C1_Witness ==
    /\ pc = "filtered"
    /\ Cardinality({c \in Range(FilterColumns) : selected[c] # "All"}) >= 2
    /\ Len(df) = 2
    /\ filtered_df = <<df[2]>>
    /\ df[1] # df[2]

\* C2: the series of a SUM-class metric has one entry per date that has a
\* row, and the entry is the sum of the metric over the rows of that date,
\* which is the sum of the sums of the two parts of any split of those rows.
C2_SumSeries ==
    (Aggregated /\ Recognized(selected_metrics)) =>
        \A m \in Range(selected_metrics) \cap Range(sum_metrics) :
            /\ OneRowPerDate(agg_df)
            /\ SeriesDates(agg_df, m) = Keys(filtered_df)
            /\ \A d \in Keys(filtered_df) :
                  \A A \in SUBSET RowsOn(filtered_df, d) :
                      Cell(agg_df, d, m) =
                          Num(SumOver(filtered_df, m, A)
                              + SumOver(filtered_df, m, RowsOn(filtered_df, d) \ A))

\* C2 witness: Spend alone is aggregated over two rows of one date with
\* different non-zero values
C2_Witness ==
    /\ pc = "aggregated"
    /\ selected_metrics = <<"Spend">>
    /\ Len(filtered_df) = 2
    /\ filtered_df[1][DateCol] = filtered_df[2][DateCol]
    /\ filtered_df[1]["Spend"] > 0
    /\ filtered_df[2]["Spend"] > filtered_df[1]["Spend"]
    /\ agg_df.rows[1]["Spend"] = Num(filtered_df[1]["Spend"] + filtered_df[2]["Spend"])

C4_OuterJoin ==
    (pc = "aggregated" /\ selected_metrics # <<>> /\ Recognized(selected_metrics)) =>
        /\ IsFrame(agg_df)
        /\ agg_df.columns = <<DateCol>> \o selected_metrics
        /\ OneRowPerDate(agg_df)
        /\ TableDates(agg_df) =
               UNION {ExpectedDates(filtered_df, m) : m \in Range(selected_metrics)}
        /\ \A d \in TableDates(agg_df), m \in Range(selected_metrics) :
              IF d \in ExpectedDates(filtered_df, m)
              THEN /\ ~IsNaN(Cell(agg_df, d, m))
                   /\ 2 * Cell(agg_df, d, m).val =
                         IF Contains(sum_metrics, m)
                         THEN 2 * SumOver(filtered_df, m, RowsOn(filtered_df, d))
                         ELSE TwiceMedian(filtered_df, m, PositiveOn(filtered_df, m, d))
              ELSE Cell(agg_df, d, m) = NaN

\* C4 witness: two metrics whose series have different dates, each missing
\* at a date the other has
C4_Witness ==
    /\ pc = "aggregated"
    /\ selected_metrics = <<"Click-through Rate", "CPC">>
    /\ Len(agg_df.rows) = 2
    /\ \E i, j \in DOMAIN agg_df.rows :
          /\ IsNaN(agg_df.rows[i]["CPC"]) /\ ~IsNaN(agg_df.rows[i]["Click-through Rate"])
          /\ IsNaN(agg_df.rows[j]["Click-through Rate"]) /\ ~IsNaN(agg_df.rows[j]["CPC"])

\* C5: a metric list that contains a name of neither class gives, without an
\* error, the table of the list with that name removed.
C5_UnrecognizedExcluded ==
    (pc = "aggregated" /\ Contains(selected_metrics, Unrecognized)) =>
        agg_df = aggregate_data(filtered_df,
                                SelectSeq(selected_metrics, LAMBDA m : m # Unrecognized))

\* C7: when a requested column has a value, the y-axis range is 0 to 1.1
\* times the largest value of the requested columns, missing entries ignored.
C7_SharedYRange ==
    LET values == {agg_df.rows[i][selected_metrics[k]] :
                      i \in DOMAIN agg_df.rows, k \in DOMAIN selected_metrics} \ {NaN}
    IN  (pc = "plotted" /\ values # {}) =>
            LET M == CHOOSE x \in values : \A y \in values : y.val <= x.val
            IN  fig.yaxis_range = <<Num(0), [num |-> 11 * M.val, den |-> 10]>>

\* C10: the inline aggregation of a single-metric tab gives the table that
\* aggregate_data gives for that tab's metric alone.
C10_TabsAgreeWithAggregateData ==
    pc = "tab_aggregated" =>
        agg_df = aggregate_data(filtered_df, selected_metrics)

\* C10 witness: the CPC tab aggregates a Dataset with a row <= 0 and a row
\* > 0 and gets a row
C10_Witness ==
    /\ pc = "tab_aggregated"
    /\ selected_metrics = <<"CPC">>
    /\ \E i, j \in DOMAIN filtered_df :
          filtered_df[i]["CPC"] <= 0 /\ filtered_df[j]["CPC"] > 0
    /\ agg_df.rows # <<>>

\* the view the run has just rendered
JustRendered(v) == pc = NextView(v)

\* C6: in every view of the Metrics Charts page, when filtering or the
\* exclusion of values <= 0 leaves the aggregated result of a loaded Dataset
\* without rows, the view shows a warning and no chart.
C6_EmptyResultWarns ==
    \A v \in Range(Views) :
        (JustRendered(v) /\ df # <<>> /\ IsFrame(agg_df) /\ agg_df.rows = <<>>) =>
            shown[v] = "warning"

\* C8: aggregate_data with an empty metric list returns the table without
\* rows and columns for every Dataset, and the General tab with nothing
\* selected warns and calls neither aggregate_data nor plot_metric.
C8_EmptyMetricList ==
    /\ aggregate_data(df, <<>>) = EmptyDataFrame
    /\ aggregate_data(filtered_df, <<>>) = EmptyDataFrame
    /\ (JustRendered("General") /\ selected_metrics = <<>>) =>
          /\ shown["General"] = "warning"
          /\ calls = {"load_data", "apply_filters"}
          /\ agg_df = None
          /\ fig = None

\* C8 witness: the General tab was rendered on a loaded Dataset with rows left
\* after filtering and nothing selected
C8_Witness ==
    /\ JustRendered("General")
    /\ selected_metrics = <<>>
    /\ filtered_df # <<>>
    /\ shown["General"] = "warning"

\* C9: without an uploaded file the run prompts for one and stops, with no
\* function of the script called and nothing else rendered; filtering,
\* aggregation and plotting happen only after load_data loaded the file.
C9_NoFileHalts ==
    /\ (uploaded_file = None /\ pc # "start") =>
          /\ pc = "stopped"
          /\ calls = {}
          /\ df = <<>>
          /\ shown = [NothingShown EXCEPT !["Upload"] = "warning"]
    /\ pc = "stopped" => (uploaded_file = None /\ ~ENABLED Next)
    /\ (calls # {} \/ \E v \in Outputs \ {"Upload"} : shown[v] # "") =>
          /\ uploaded_file # None
          /\ "load_data" \in calls
          /\ df = load_data(uploaded_file)
          /\ shown["Upload"] = ""

\* C9 witness: the run has stopped at the upload prompt
C9_Witness ==
    /\ pc = "stopped"
    /\ shown["Upload"] = "warning"

=============================================================================
